---- MODULE Spec2Model ----
(***************************************************************************)
(* InstanceSerializer (src/src/index.ts): a codec between a live tree of   *)
(* host objects and a plain SerializedInstance tree.                       *)
(*                                                                         *)
(* Values are records carrying their runtime type in the field t, the      *)
(* answer of typeOf/typeIs.  A plain table of the serialized form has      *)
(* t = "table".  The host (object construction, attribute reads and        *)
(* writes, the enumeration namespace, the mesh importer, the HTTP fetch)   *)
(* is external to the source; it is modelled by the capabilities the       *)
(* source uses, and its failures are nondeterministic.                     *)
(***************************************************************************)
EXTENDS Integers, Sequences, FiniteSets, TLC

VARIABLES
    properties,   \* InstanceSerializer.properties, the process-wide catalog cache
    pc,           \* per caller: position inside fetchProperties
    hash,         \* per caller: the local `hash` of fetchProperties
    seen,         \* per caller: what its last fetchProperties call returned
    calls,        \* per caller: fetchProperties calls started so far
    value,        \* codec: the live value given to serializeProperty
    wire,         \* codec: the result of serializeProperty
    decoded,      \* codec: the result of deserializeProperty
    cstep,        \* codec: position of the round trip
    instance,     \* the live root object given to serializeInstance
    data,         \* the SerializedInstance given to deserializeInstance
    stack,        \* the active deserializeInstance calls, innermost last
    heap,         \* the objects constructed so far, by id
    ret,          \* the object a deserializeInstance call has just returned
    status,       \* the outcome of the top-level call
    warnings,     \* what warn() has reported
    hostRejects   \* attribute names whose write the host rejects

vars == <<properties, pc, hash, seen, calls, value, wire, decoded, cstep,
          instance, data, stack, heap, ret, status, warnings, hostRejects>>

cacheVars == <<properties, pc, hash, seen, calls>>
codecVars == <<value, wire, decoded, cstep>>
treeVars  == <<instance, data, stack, heap, ret, status, warnings, hostRejects>>

(***************************************************************************)
(* Bounds of the model.                                                    *)
(***************************************************************************)
MaxKeypoints == 2     \* longest keypoint list of a sequence value
MaxNodes     == 3     \* most objects in a tree
NumCallers   == 2     \* concurrent callers of fetchProperties
MaxCalls     == 2     \* fetchProperties calls per caller

(***************************************************************************)
(* Host values.                                                            *)
(***************************************************************************)
Undefined == [t |-> "nil"]
Thrown    == [t |-> "error"]          \* the outcome of an expression that throws

Bool(b) == [t |-> "boolean", b |-> b]
Num(n)  == [t |-> "number", n |-> n]
Str(s)  == [t |-> "string", s |-> s]

NewVector3(x, y, z) == [t |-> "Vector3", X |-> x, Y |-> y, Z |-> z]
NewVector2(x, y)    == [t |-> "Vector2", X |-> x, Y |-> y]
NewColor3(r, g, b)  == [t |-> "Color3", R |-> r, G |-> g, B |-> b]
NewNumberRange(min, max) == [t |-> "NumberRange", Min |-> min, Max |-> max]

\* new CFrame(x, y, z, r00, ..., r22); GetComponents() returns the same twelve
NewCFrame(x, y, z, r00, r01, r02, r10, r11, r12, r20, r21, r22) ==
    [t |-> "CFrame",
     Components |-> <<x, y, z, r00, r01, r02, r10, r11, r12, r20, r21, r22>>]

NewNumberSequenceKeypoint(time, val, envelope) ==
    [Time |-> time, Value |-> val, Envelope |-> envelope]
NewColorSequenceKeypoint(time, color) == [Time |-> time, Value |-> color]
NewNumberSequence(keypoints) == [t |-> "NumberSequence", Keypoints |-> keypoints]
NewColorSequence(keypoints)  == [t |-> "ColorSequence", Keypoints |-> keypoints]

\* the host's enumeration namespace `Enum`
EnumNamespace ==
    [e \in {"Material", "PartType"} |->
        IF e = "Material" THEN {"Plastic", "Wood"} ELSE {"Ball", "Block"}]
EnumItem(enumType, name) ==
    [t |-> "EnumItem", EnumType |-> [t |-> "Enum", name |-> enumType], Name |-> name]
tostring(enum) == enum.name

\* kinds that pass the inclusion test but that serializeProperty leaves as they are
NewUDim(scale, offset) == [t |-> "UDim", Scale |-> scale, Offset |-> offset]
InstanceRef == [t |-> "Instance", ref |-> "other"]
FunctionValue == [t |-> "function"]

typeOf(v) == v.t
typeIs(v, name) == v.t = name

(***************************************************************************)
(* serializeProperty, lines 300-364.                                       *)
(***************************************************************************)
serializeProperty(v) ==
    IF typeIs(v, "Vector3") THEN
        [t |-> "table", _type |-> "Vector3", X |-> v.X, Y |-> v.Y, Z |-> v.Z]
    ELSE IF typeIs(v, "CFrame") THEN
        LET c == v.Components IN
        [t |-> "table", _type |-> "CFrame",
         Position |-> <<c[1], c[2], c[3]>>,
         Rotation |-> <<c[4], c[5], c[6], c[7], c[8], c[9], c[10], c[11], c[12]>>]
    ELSE IF typeIs(v, "Color3") THEN
        [t |-> "table", _type |-> "Color3", R |-> v.R, G |-> v.G, B |-> v.B]
    ELSE IF typeIs(v, "NumberSequence") THEN
        [t |-> "table", _type |-> "NumberSequence",
         Keypoints |-> [i \in 1..Len(v.Keypoints) |->
            [Time |-> v.Keypoints[i].Time,
             Value |-> v.Keypoints[i].Value,
             Envelope |-> v.Keypoints[i].Envelope]]]
    ELSE IF typeIs(v, "ColorSequence") THEN
        [t |-> "table", _type |-> "ColorSequence",
         Keypoints |-> [i \in 1..Len(v.Keypoints) |->
            [Time |-> v.Keypoints[i].Time,
             Value |-> [R |-> v.Keypoints[i].Value.R,
                        G |-> v.Keypoints[i].Value.G,
                        B |-> v.Keypoints[i].Value.B]]]]
    ELSE IF typeIs(v, "EnumItem") THEN
        [t |-> "table", _type |-> "EnumItem",
         EnumType |-> tostring(v.EnumType), Name |-> v.Name]
    ELSE IF typeIs(v, "Vector2") THEN
        [t |-> "table", _type |-> "Vector2", X |-> v.X, Y |-> v.Y]
    ELSE IF typeIs(v, "NumberRange") THEN
        [t |-> "table", _type |-> "NumberRange", Min |-> v.Min, Max |-> v.Max]
    ELSE v

(***************************************************************************)
(* deserializeProperty, lines 372-422.  Indexing a missing Position,       *)
(* Rotation or Keypoints, and indexing Enum by a name it does not hold,    *)
(* throw.                                                                  *)
(***************************************************************************)
HasField(v, f) == f \in DOMAIN v

EnumLookupYieldsNil(enumType, enumName) ==
    IF enumType \notin DOMAIN EnumNamespace THEN Undefined
    ELSE IF enumName \notin EnumNamespace[enumType] THEN Undefined
    ELSE EnumItem(enumType, enumName)

\* line 413: Enum[enumType][enumName]
EnumLookup(enumType, enumName) ==
    IF enumType \notin DOMAIN EnumNamespace THEN Thrown
    ELSE IF enumName \notin EnumNamespace[enumType] THEN Thrown
    ELSE EnumItem(enumType, enumName)

deserializePropertyPassThrough(v) == v

deserializePropertyVector2Swapped(v) ==
    IF typeIs(v, "table") /\ HasField(v, "_type") /\ v._type = "Vector2"
    THEN NewVector2(v.Y, v.X)
    ELSE v

deserializeProperty(v) ==
    IF typeIs(v, "table") /\ HasField(v, "_type") THEN
        CASE v._type = "Vector3" -> NewVector3(v.X, v.Y, v.Z)
          [] v._type = "CFrame" ->
                IF ~HasField(v, "Position") \/ ~HasField(v, "Rotation") THEN Thrown
                ELSE LET position == v.Position
                         rotation == v.Rotation
                     IN NewCFrame(position[1], position[2], position[3],
                                  rotation[1], rotation[2], rotation[3],
                                  rotation[4], rotation[5], rotation[6],
                                  rotation[7], rotation[8], rotation[9])
          [] v._type = "Color3" -> NewColor3(v.R, v.G, v.B)
          [] v._type = "NumberSequence" ->
                IF ~HasField(v, "Keypoints") THEN Thrown
                ELSE NewNumberSequence(
                        [i \in 1..Len(v.Keypoints) |->
                            NewNumberSequenceKeypoint(v.Keypoints[i].Time,
                                                      v.Keypoints[i].Value,
                                                      v.Keypoints[i].Envelope)])
          [] v._type = "ColorSequence" ->
                IF ~HasField(v, "Keypoints") THEN Thrown
                ELSE NewColorSequence(
                        [i \in 1..Len(v.Keypoints) |->
                            NewColorSequenceKeypoint(v.Keypoints[i].Time,
                                NewColor3(v.Keypoints[i].Value.R,
                                          v.Keypoints[i].Value.G,
                                          v.Keypoints[i].Value.B))])
          [] v._type = "EnumItem" -> EnumLookup(v.EnumType, v.Name)
          [] v._type = "Vector2" -> NewVector2(v.X, v.Y)
          [] v._type = "NumberRange" -> NewNumberRange(v.Min, v.Max)
          [] OTHER -> v
    ELSE v

(***************************************************************************)
(* The codec alone: one value through serializeProperty and back.          *)
(***************************************************************************)
Unit == {0, 1}

RECURSIVE SeqsUpTo(_, _)
SeqsUpTo(S, n) ==
    IF n = 0 THEN {<<>>}
    ELSE LET shorter == SeqsUpTo(S, n - 1)
         IN shorter \cup {Append(s, x) : s \in {q \in shorter : Len(q) = n - 1}, x \in S}

NumberKeypoints ==
    {NewNumberSequenceKeypoint(0, 1, 0), NewNumberSequenceKeypoint(1, 0, 1)}
ColorKeypoints ==
    {NewColorSequenceKeypoint(0, NewColor3(1, 0, 0)),
     NewColorSequenceKeypoint(1, NewColor3(0, 1, 1))}

StructuredKinds ==
    {"Vector3", "Vector2", "CFrame", "Color3", "NumberRange", "NumberSequence",
     "ColorSequence", "EnumItem"}
PrimitiveKinds == {"boolean", "string", "number"}

StructuredValues ==
    {NewVector3(x, y, z) : x \in Unit, y \in Unit, z \in Unit}
    \cup {NewVector2(x, y) : x \in Unit, y \in Unit}
    \cup {NewCFrame(0, 0, 0, 1, 0, 0, 0, 1, 0, 0, 0, 1),
          NewCFrame(1, 2, 3, 0, -1, 0, 1, 0, 0, 0, 0, 1)}
    \cup {NewColor3(r, g, b) : r \in Unit, g \in Unit, b \in Unit}
    \cup {NewNumberRange(min, max) : min \in Unit, max \in Unit}
    \cup {NewNumberSequence(k) : k \in SeqsUpTo(NumberKeypoints, MaxKeypoints)}
    \cup {NewColorSequence(k) : k \in SeqsUpTo(ColorKeypoints, MaxKeypoints)}
    \cup {EnumItem(e, n) : e \in {"Material"}, n \in EnumNamespace["Material"]}
    \cup {EnumItem(e, n) : e \in {"PartType"}, n \in EnumNamespace["PartType"]}

PrimitiveValues ==
    {Bool(TRUE), Bool(FALSE), Str(""), Str("rbxassetid://123"), Num(0), Num(1)}

CodecValues == StructuredValues \cup PrimitiveValues \cup {NewUDim(1, 0)}

NoObject == [ClassName |-> "", Name |-> "", Archivable |-> TRUE,
             attrs |-> <<>>, unreadable |-> {}, Children |-> <<>>]
NoData   == [ClassName |-> "", Name |-> "", Properties |-> <<>>, Children |-> <<>>]
NoCache  == [set |-> FALSE]

CacheIdle ==
    /\ properties = NoCache
    /\ pc = <<>> /\ hash = <<>> /\ seen = <<>> /\ calls = <<>>
CodecIdle ==
    /\ value = Undefined /\ wire = Undefined /\ decoded = Undefined /\ cstep = "idle"
TreeIdle ==
    /\ instance = NoObject /\ data = NoData
    /\ stack = <<>> /\ heap = <<>> /\ ret = 0 /\ status = "idle"
    /\ warnings = {} /\ hostRejects = {}

InitCodec ==
    /\ value \in CodecValues
    /\ wire = Undefined /\ decoded = Undefined /\ cstep = "value"
    /\ CacheIdle
    /\ TreeIdle

Encode ==
    /\ cstep = "value"
    /\ wire' = serializeProperty(value)
    /\ cstep' = "encoded"
    /\ UNCHANGED <<value, decoded>>
    /\ UNCHANGED cacheVars /\ UNCHANGED treeVars

Decode ==
    /\ cstep = "encoded"
    /\ decoded' = deserializeProperty(wire)
    /\ cstep' = "decoded"
    /\ UNCHANGED <<value, wire>>
    /\ UNCHANGED cacheVars /\ UNCHANGED treeVars

NextCodec == Encode \/ Decode
SpecCodec == InitCodec /\ [][NextCodec]_vars

\* C4: every value of the eight structured kinds comes back from
\* deserializeProperty(serializeProperty(v)) equal field for field, and a
\* boolean, string or number is left unchanged by both directions.
RoundTripProperty ==
    cstep = "decoded" =>
        /\ typeOf(value) \in StructuredKinds =>
              /\ decoded = value
              /\ wire.t = "table" /\ wire._type = typeOf(value)
        /\ typeOf(value) \in PrimitiveKinds => wire = value /\ decoded = value

RoundTripWitness ==
    /\ cstep = "decoded"
    /\ typeOf(value) = "NumberSequence"
    /\ Len(value.Keypoints) = MaxKeypoints
    /\ decoded = value


(***************************************************************************)
(* The host object model.  A live object carries its type name, its name,  *)
(* its archivability flag, an attribute bag addressed by name, the names   *)
(* whose read the host refuses, and its ordered children.                  *)
(***************************************************************************)
Ancestry ==
    [c \in {"Part", "MeshPart", "Attachment", "Terrain"} |->
        CASE c = "Part"       -> {"Part", "BasePart", "Instance"}
          [] c = "MeshPart"   -> {"MeshPart", "BasePart", "Instance"}
          [] c = "Attachment" -> {"Attachment", "Instance"}
          [] c = "Terrain"    -> {"Terrain", "BasePart", "Instance"}]

\* instance.IsA(className)
IsA(object, className) == className \in Ancestry[object.ClassName]

\* instance[name]: the read of an attribute, which throws when the object has no
\* such member or the host refuses the read
Index(object, name) ==
    IF name = "ClassName" THEN Str(object.ClassName)
    ELSE IF name = "Name" THEN Str(object.Name)
    ELSE IF name = "Archivable" THEN Bool(object.Archivable)
    ELSE IF name \notin DOMAIN object.attrs \/ name \in object.unreadable THEN Thrown
    ELSE object.attrs[name]

(***************************************************************************)
(* Attribute discovery, lines 25-50, 88-133 and 244-292.                   *)
(***************************************************************************)
IGNORED_PROPERTIES ==
    {"ClassName", "Name", "Parent", "RobloxLocked", "Archivable",
     "Mass", "CenterOfMass", "AssemblyCenterOfMass", "ExtentsCFrame", "ExtentsSize",
     "MeshSize", "ResizeIncrement",
     "IsLoaded", "TimeLength", "PlaybackLoudness", "CollisionFidelity",
     "RenderFidelity", "DoubleSided", "WorldPosition", "WorldOrientation",
     "WorldCFrame", "Active"}

IgnoredHasNothing(name) == FALSE

\* this.IGNORED_PROPERTIES.has(name), lines 108 and 272
IgnoredHas(name) == name \in IGNORED_PROPERTIES

\* the names of the first test of shouldSerializeProperty
ForceIncluded ==
    {"CFrame", "Position", "Orientation", "Rotation", "Speed", "SpreadAngle", "Rate",
     "RotSpeed", "Acceleration", "Drag", "VelocityInheritance", "Lifetime", "Size",
     "Transparency", "LightEmission", "LightInfluence"}

NoTags == Undefined
Tags(items) == [t |-> "table", items |-> items]

hasTag(tags, tag) ==
    IF typeIs(tags, "nil") THEN FALSE
    ELSE \E i \in 1..Len(tags.items) : tags.items[i] = tag

shouldSerializePropertyNoForce(propertyName, propertyValue) ==
    IF typeIs(propertyValue, "nil") THEN FALSE
    ELSE IF typeIs(propertyValue, "function") THEN FALSE
    ELSE IF typeIs(propertyValue, "Instance") THEN FALSE
    ELSE IF IgnoredHas(propertyName) THEN FALSE
    ELSE typeOf(propertyValue) \in
            {"boolean", "string", "number", "Vector3", "CFrame", "Color3", "Vector2",
             "UDim", "UDim2", "NumberRange", "Rect", "BrickColor", "NumberSequence",
             "ColorSequence", "EnumItem"}

shouldSerializeProperty(propertyName, propertyValue) ==
    IF propertyName \in ForceIncluded THEN TRUE
    ELSE IF typeIs(propertyValue, "nil") THEN FALSE
    ELSE IF typeIs(propertyValue, "function") THEN FALSE
    ELSE IF typeIs(propertyValue, "Instance") THEN FALSE
    ELSE IF IgnoredHas(propertyName) THEN FALSE
    ELSE typeOf(propertyValue) \in
            {"boolean", "string", "number", "Vector3", "CFrame", "Color3", "Vector2",
             "UDim", "UDim2", "NumberRange", "Rect", "BrickColor", "NumberSequence",
             "ColorSequence", "EnumItem"}

EmptyMap == [k \in {} |-> Undefined]

\* map[key] = v: assigning nil leaves the key absent
MapSet(map, key, v) ==
    IF typeIs(v, "nil") THEN [k \in DOMAIN map \ {key} |-> map[k]]
    ELSE [k \in DOMAIN map \cup {key} |-> IF k = key THEN v ELSE map[k]]

\* lines 111-116
HasExcludingTag(member) ==
    \/ hasTag(member.Tags, "Deprecated")
    \/ hasTag(member.Tags, "Hidden")
    \/ hasTag(member.Tags, "NotScriptable")
    \/ hasTag(member.Tags, "ReadOnly")

\* the body of the loop over classData.Members, lines 107-128
VisitMember(object, member, props) ==
    IF member.MemberType # "Property" THEN props
    ELSE IF IgnoredHas(member.Name) THEN props
    ELSE IF HasExcludingTag(member) THEN props
    ELSE LET v == Index(object, member.Name)
         IN IF typeIs(v, "error") THEN props
            ELSE IF shouldSerializeProperty(member.Name, v)
                 THEN MapSet(props, member.Name, serializeProperty(v))
                 ELSE props

RECURSIVE MembersLoop(_, _, _, _)
MembersLoop(object, members, i, props) ==
    IF i > Len(members) THEN props
    ELSE MembersLoop(object, members, i + 1, VisitMember(object, members[i], props))

RECURSIVE ClassesLoop(_, _, _, _)
ClassesLoop(object, apiClasses, i, props) ==
    IF i > Len(apiClasses) THEN props
    ELSE IF ~IsA(object, apiClasses[i].Name)
         THEN ClassesLoop(object, apiClasses, i + 1, props)
         ELSE ClassesLoop(object, apiClasses, i + 1,
                          MembersLoop(object, apiClasses[i].Members, 1, props))

getInstanceProperties(object, apiClasses) == ClassesLoop(object, apiClasses, 1, EmptyMap)

\* for (const [key, value] of properties) serialized.Properties[key] = value
CopyInto(target, props) ==
    [k \in DOMAIN target \cup DOMAIN props |-> IF k \in DOMAIN props THEN props[k] ELSE target[k]]

(***************************************************************************)
(* serializeInstance, lines 140-176.                                       *)
(***************************************************************************)
ChildIsSerializedAlways(child) == TRUE

\* line 170
ChildIsSerialized(child) == child.Archivable

RECURSIVE serializeInstance(_, _)
RECURSIVE ChildrenLoop(_, _, _, _)

ChildrenLoop(children, i, apiClasses, out) ==
    IF i > Len(children) THEN out
    ELSE IF ChildIsSerialized(children[i])
         THEN ChildrenLoop(children, i + 1, apiClasses,
                           Append(out, serializeInstance(children[i], apiClasses)))
         ELSE ChildrenLoop(children, i + 1, apiClasses, out)

serializeInstance(object, apiClasses) ==
    LET attachmentProps ==
            IF IsA(object, "Attachment")
            THEN CopyInto(EmptyMap, getInstanceProperties(object, apiClasses))
            ELSE EmptyMap
        props == CopyInto(attachmentProps, getInstanceProperties(object, apiClasses))
        children == ChildrenLoop(object.Children, 1, apiClasses, <<>>)
    IN IF IsA(object, "MeshPart")
       THEN [ClassName |-> object.ClassName, Name |-> object.Name,
             Properties |-> props, Children |-> children,
             MeshId |-> Index(object, "MeshId")]
       ELSE [ClassName |-> object.ClassName, Name |-> object.Name,
             Properties |-> props, Children |-> children]

(***************************************************************************)
(* Catalogs and live trees the serializer is run on.                       *)
(***************************************************************************)
Member(name, memberType, tags) == [Name |-> name, MemberType |-> memberType, Tags |-> tags]

TagChoices ==
    {NoTags, Tags(<<>>), Tags(<<"Deprecated">>), Tags(<<"Hidden">>),
     Tags(<<"NotScriptable">>), Tags(<<"ReadOnly">>)}

\* a catalog: Size is declared by BasePart as sizeKind with sizeTags, Mass with
\* massTags, and Part declares Size again, untagged, when partSize holds
ApiClasses(sizeKind, sizeTags, massTags, partSize) ==
    <<[Name |-> "Instance",
       Members |-> <<Member("Name", "Property", NoTags),
                     Member("Archivable", "Property", NoTags),
                     Member("Destroy", "Function", NoTags)>>],
      [Name |-> "BasePart",
       Members |-> <<Member("Size", sizeKind, sizeTags),
                     Member("Color", "Property", NoTags),
                     Member("Mass", "Property", massTags),
                     Member("Material", "Property", Tags(<<>>))>>],
      [Name |-> "MeshPart",
       Members |-> <<Member("MeshId", "Property", NoTags)>>],
      [Name |-> "Attachment",
       Members |-> <<Member("CFrame", "Property", NoTags),
                     Member("Visible", "Property", NoTags)>>],
      [Name |-> "Part",
       Members |-> IF partSize THEN <<Member("Size", "Property", NoTags)>> ELSE <<>>]>>

StandardCatalog == ApiClasses("Property", NoTags, Tags(<<"ReadOnly">>), FALSE)

Catalogs ==
    {ApiClasses("Property", st, mt, ps) :
        st \in TagChoices, mt \in {NoTags, Tags(<<"ReadOnly">>)}, ps \in BOOLEAN}
    \cup {ApiClasses("Function", NoTags, NoTags, FALSE)}

LiveObject(className, name, archivable, attrs, unreadable) ==
    [ClassName |-> className, Name |-> name, Archivable |-> archivable,
     attrs |-> attrs, unreadable |-> unreadable]

PartAttrs(size, color) ==
    [k \in {"Size", "Color", "Mass", "Material"} |->
        CASE k = "Size" -> size
          [] k = "Color" -> color
          [] k = "Mass" -> Num(5)
          [] k = "Material" -> EnumItem("Material", "Wood")]
MeshPartAttrs(meshId) ==
    [k \in {"Size", "Color", "Mass", "Material", "MeshId"} |->
        CASE k = "Size" -> NewVector3(2, 2, 2)
          [] k = "Color" -> NewColor3(0, 1, 0)
          [] k = "Mass" -> Num(1)
          [] k = "Material" -> EnumItem("Material", "Plastic")
          [] k = "MeshId" -> Str(meshId)]
AttachmentAttrs ==
    [k \in {"CFrame", "Visible"} |->
        IF k = "CFrame" THEN NewCFrame(1, 2, 3, 0, -1, 0, 1, 0, 0, 0, 0, 1)
        ELSE Bool(TRUE)]

Block(archivable) ==
    LiveObject("Part", "Block", archivable,
               PartAttrs(NewVector3(1, 2, 3), NewColor3(1, 0, 0)), {})
Mesh == LiveObject("MeshPart", "Mesh", TRUE, MeshPartAttrs("rbxassetid://123"), {})
A1 == LiveObject("Attachment", "A1", TRUE, AttachmentAttrs, {})
TerrainObject ==
    LiveObject("Terrain", "Terrain", TRUE,
               PartAttrs(NewVector3(4, 4, 4), NewColor3(0, 0, 1)), {})

\* single objects with awkward attributes: a force-included name holding an
\* Instance, nil or a value of no serializable kind, or refusing the read
OddObjects ==
    {LiveObject("Part", "Odd", TRUE, PartAttrs(size, color), unreadable) :
        size \in {NewVector3(1, 2, 3), InstanceRef, Undefined, FunctionValue},
        color \in {NewColor3(1, 0, 0), NewUDim(1, 0), InstanceRef},
        unreadable \in {{}, {"Size"}, {"Color"}}}

TreeLabels == {Block(TRUE), Block(FALSE), Mesh, A1}

WithChildren(label, children) ==
    [k \in DOMAIN label \cup {"Children"} |->
        IF k = "Children" THEN children ELSE label[k]]

RECURSIVE TreesOfSize(_, _)
RECURSIVE ForestsOfSize(_, _)
TreesOfSize(labels, n) ==
    IF n = 0 THEN {}
    ELSE {WithChildren(l, f) : l \in labels, f \in ForestsOfSize(labels, n - 1)}
ForestsOfSize(labels, m) ==
    IF m = 0 THEN {<<>>}
    ELSE UNION {{<<tr>> \o f : tr \in TreesOfSize(labels, k),
                               f \in ForestsOfSize(labels, m - k)} : k \in 1..m}
TreesUpTo(labels, n) == UNION {TreesOfSize(labels, k) : k \in 1..n}

SerializerInputs ==
    {WithChildren(o, <<>>) : o \in OddObjects} \cup TreesUpTo(TreeLabels, MaxNodes)

Cached(apiClasses) == [set |-> TRUE, classes |-> apiClasses]

InitSer ==
    /\ instance \in SerializerInputs
    /\ properties \in {Cached(c) : c \in Catalogs}
    /\ data = NoData /\ status = "live"
    /\ stack = <<>> /\ heap = <<>> /\ ret = 0 /\ warnings = {} /\ hostRejects = {}
    /\ pc = <<>> /\ hash = <<>> /\ seen = <<>> /\ calls = <<>>
    /\ CodecIdle

\* one serializeInstance call with the catalog already cached
Serialize ==
    /\ status = "live"
    /\ properties.set
    /\ data' = serializeInstance(instance, properties.classes)
    /\ status' = "serialized"
    /\ UNCHANGED <<instance, stack, heap, ret, warnings, hostRejects>>
    /\ UNCHANGED cacheVars /\ UNCHANGED codecVars

NextSer == Serialize
SpecSer == InitSer /\ [][NextSer]_vars


(***************************************************************************)
(* Properties of the serializer.                                           *)
(***************************************************************************)
RECURSIVE NodesOf(_)
NodesOf(node) ==
    {node} \cup UNION {NodesOf(node.Children[i]) : i \in 1..Len(node.Children)}

\* type name, name and children of a serialized node, recursively
RECURSIVE NodeShape(_)
NodeShape(node) ==
    [ClassName |-> node.ClassName, Name |-> node.Name,
     Children |-> [i \in 1..Len(node.Children) |-> NodeShape(node.Children[i])]]

\* type name and name of a live object and, in the host's order, of those of its
\* children that are archivable, recursively
RECURSIVE PrunedShape(_)
PrunedShape(object) ==
    LET kept == SelectSeq(object.Children, LAMBDA c : c.Archivable)
    IN [ClassName |-> object.ClassName, Name |-> object.Name,
        Children |-> [i \in 1..Len(kept) |-> PrunedShape(kept[i])]]

\* C2: the serialized tree holds exactly the objects reached from the root through
\* archivable children, in the host's child order: a non-archivable child and all
\* of its subtree are absent at any depth, every archivable child is present.
ArchivablePruning ==
    status = "serialized" => NodeShape(data) = PrunedShape(instance)

ArchivablePruningDeepWitness ==
    /\ status = "serialized"
    /\ Len(instance.Children) = 1
    /\ ~instance.Children[1].Archivable
    /\ Len(instance.Children[1].Children) = 1
    /\ instance.Children[1].Children[1].Archivable
    /\ data.Children = <<>>

\* some descriptor that matches the object declares a member of that name
\* satisfying ok
Declares(object, apiClasses, name, ok(_)) ==
    \E i \in 1..Len(apiClasses) :
        /\ IsA(object, apiClasses[i].Name)
        /\ \E j \in 1..Len(apiClasses[i].Members) :
              /\ apiClasses[i].Members[j].Name = name
              /\ ok(apiClasses[i].Members[j])

ReadsValue(object, name) ==
    ~typeIs(Index(object, name), "error") /\ ~typeIs(Index(object, name), "nil")

\* C5 as stated: a force-included name that the catalog declares for the object and
\* that is readable is in Properties whatever the member's kind and tags.
ForceIncludeDespiteTags ==
    status = "serialized" =>
        \A name \in ForceIncluded :
            (/\ Declares(instance, properties.classes, name, LAMBDA m : TRUE)
             /\ ReadsValue(instance, name))
            => name \in DOMAIN data.Properties

\* C5 amended: a force-included name that a matching descriptor declares as a
\* Property-kind member without an excluding tag, and whose read yields a value,
\* is in Properties whatever the kind of that value.
ForceIncludeDespiteValueKind ==
    status = "serialized" =>
        \A name \in ForceIncluded :
            (/\ Declares(instance, properties.classes, name,
                         LAMBDA m : m.MemberType = "Property" /\ ~HasExcludingTag(m))
             /\ ReadsValue(instance, name))
            => /\ name \in DOMAIN data.Properties
               /\ data.Properties[name] = serializeProperty(Index(instance, name))

ForceIncludeWitness ==
    /\ status = "serialized"
    /\ typeIs(Index(instance, "Size"), "Instance")
    /\ "Size" \in DOMAIN data.Properties
    /\ "Color" \notin DOMAIN data.Properties

\* C6: no node of the output has a key of Properties that is in IGNORED_PROPERTIES.
IgnoredNeverSerialized ==
    status = "serialized" =>
        \A node \in NodesOf(data) : DOMAIN node.Properties \cap IGNORED_PROPERTIES = {}

IgnoredWitness ==
    /\ status = "serialized"
    /\ Declares(instance, properties.classes, "Mass",
                LAMBDA m : m.MemberType = "Property" /\ ~HasExcludingTag(m))
    /\ typeIs(Index(instance, "Mass"), "number")
    /\ "Mass" \notin DOMAIN data.Properties
    /\ "Color" \in DOMAIN data.Properties
    /\ Len(data.Children) > 0


(***************************************************************************)
(* The host operations deserializeInstance uses.                           *)
(***************************************************************************)
\* the type names `new Instance` accepts (the casts of lines 209 and 214)
CreatableInstances == {"Part", "MeshPart", "Attachment"}

AttributesOf(className) ==
    CASE className = "Part" -> {"Size", "Color", "Mass", "Material"}
      [] className = "MeshPart" -> {"Size", "Color", "Mass", "Material", "MeshId"}
      [] className = "Attachment" -> {"CFrame", "Visible"}
      [] OTHER -> {}

DefaultValue(name) ==
    CASE name = "Size" -> NewVector3(4, 1, 2)
      [] name = "Color" -> NewColor3(0, 0, 0)
      [] name = "Mass" -> Num(0)
      [] name = "Material" -> EnumItem("Material", "Plastic")
      [] name = "MeshId" -> Str("")
      [] name = "CFrame" -> NewCFrame(0, 0, 0, 1, 0, 0, 0, 1, 0, 0, 0, 1)
      [] OTHER -> Bool(FALSE)

\* new Instance(className): a parentless object with default attributes
NewInstance(className) ==
    IF className \notin CreatableInstances THEN Thrown
    ELSE [t |-> "Instance", ClassName |-> className, Name |-> className, Parent |-> 0,
          attrs |-> [k \in AttributesOf(className) |-> DefaultValue(k)],
          kids |-> <<>>]

\* InsertService.CreateMeshPartAsync(meshId, ...) when the import succeeds
CreateMeshPartAsync(meshId) ==
    [NewInstance("MeshPart") EXCEPT !.attrs["MeshId"] = meshId]

\* instance[name] = v: throws when the object has no such member or the host
\* rejects the write
Assign(object, name, v, rejected) ==
    IF name \notin DOMAIN object.attrs \/ name \in rejected THEN Thrown
    ELSE [object EXCEPT !.attrs[name] = v]

\* the truth value of data.MeshId in `data.ClassName === "MeshPart" && data.MeshId`
HasMeshId(node) ==
    /\ HasField(node, "MeshId")
    /\ ~typeIs(node.MeshId, "nil")
    /\ ~(typeIs(node.MeshId, "string") /\ node.MeshId.s = "")

(***************************************************************************)
(* deserializeInstance, lines 183-235, one step at a time.  A frame is one *)
(* active call: its argument, the object it has constructed, where it is,  *)
(* the keys its running `pairs` loop has still to visit, and the index of  *)
(* the next child.                                                         *)
(***************************************************************************)
Frame(node) == [data |-> node, inst |-> 0, phase |-> "construct", todo |-> {}, next |-> 1]

Top == stack[Len(stack)]
SetTop(frame) == [stack EXCEPT ![Len(stack)] = frame]

\* leave a loop whose keys are exhausted: the Attachment loop (191-197) is
\* followed by the general loop (219-226), and that by the children (229-232)
LeaveLoops(frame) ==
    LET a == IF frame.phase = "attachment" /\ frame.todo = {}
             THEN [frame EXCEPT !.phase = "props", !.todo = DOMAIN frame.data.Properties]
             ELSE frame
    IN IF a.phase = "props" /\ a.todo = {} THEN [a EXCEPT !.phase = "children"] ELSE a

Warning(kind, property, name) == [kind |-> kind, property |-> property, name |-> name]

\* an exception that no handler catches ends the top-level call
Raise ==
    /\ status' = "error"
    /\ stack' = <<>>
    /\ UNCHANGED <<heap, ret>>

\* the constructed object enters the heap, named, and the call goes on to its loops
Constructed(object, firstLoop) ==
    /\ heap' = Append(heap, [object EXCEPT !.Name = Top.data.Name])
    /\ stack' = SetTop(LeaveLoops([Top EXCEPT !.inst = Len(heap) + 1,
                                              !.phase = firstLoop,
                                              !.todo = DOMAIN Top.data.Properties]))
    /\ UNCHANGED <<ret, status>>

Begin ==
    /\ status \in {"serialized", "given"}
    /\ status' = "running"
    /\ stack' = <<Frame(data)>>
    /\ UNCHANGED <<instance, data, heap, ret, warnings, hostRejects>>
    /\ UNCHANGED cacheVars /\ UNCHANGED codecVars

\* lines 186-188
ConstructAttachment ==
    /\ status = "running" /\ stack # <<>> /\ ret = 0
    /\ Top.phase = "construct"
    /\ Top.data.ClassName = "Attachment"
    /\ Constructed(NewInstance("Attachment"), "attachment")
    /\ UNCHANGED <<instance, data, warnings, hostRejects>>
    /\ UNCHANGED cacheVars /\ UNCHANGED codecVars

ImportFailureRethrown(className) == Thrown

\* lines 206-210: what the catch block of the import constructs
ImportFailureFallback(className) == NewInstance(className)

\* lines 198-211: the importer succeeds or throws
ConstructMeshPart ==
    /\ status = "running" /\ stack # <<>> /\ ret = 0
    /\ Top.phase = "construct"
    /\ Top.data.ClassName # "Attachment"
    /\ Top.data.ClassName = "MeshPart" /\ HasMeshId(Top.data)
    /\ \E imported \in BOOLEAN :
          IF imported
          THEN /\ Constructed(CreateMeshPartAsync(Top.data.MeshId), "props")
               /\ UNCHANGED warnings
          ELSE LET object == ImportFailureFallback(Top.data.ClassName)
               IN /\ warnings' = warnings \cup {Warning("MeshPart", "", Top.data.Name)}
                  /\ IF typeIs(object, "error")
                     THEN Raise
                     ELSE Constructed(object, "props")
    /\ UNCHANGED <<instance, data, hostRejects>>
    /\ UNCHANGED cacheVars /\ UNCHANGED codecVars

\* lines 212-216
ConstructGeneric ==
    /\ status = "running" /\ stack # <<>> /\ ret = 0
    /\ Top.phase = "construct"
    /\ Top.data.ClassName # "Attachment"
    /\ ~(Top.data.ClassName = "MeshPart" /\ HasMeshId(Top.data))
    /\ LET object == NewInstance(Top.data.ClassName)
       IN IF typeIs(object, "error")
          THEN Raise /\ UNCHANGED warnings
          ELSE Constructed(object, "props") /\ UNCHANGED warnings
    /\ UNCHANGED <<instance, data, hostRejects>>
    /\ UNCHANGED cacheVars /\ UNCHANGED codecVars

TrySetUncaught(kind, key) ==
    LET object == heap[Top.inst]
        v == deserializeProperty(Top.data.Properties[key])
        written == IF typeIs(v, "error") THEN Thrown
                   ELSE Assign(object, key, v, hostRejects)
    IN [raised |-> typeIs(written, "error"),
        heap |-> IF typeIs(written, "error") THEN heap
                 ELSE [heap EXCEPT ![Top.inst] = written],
        warnings |-> warnings]

\* the try block of lines 192-196 and 221-225 for one key: the decoded value is
\* written, or the failure of the decode or of the write is caught and reported;
\* raised tells whether an exception leaves the block
TrySet(kind, key) ==
    LET object == heap[Top.inst]
        v == deserializeProperty(Top.data.Properties[key])
        written == IF typeIs(v, "error") THEN Thrown
                   ELSE Assign(object, key, v, hostRejects)
    IN IF typeIs(written, "error")
       THEN [raised |-> FALSE, heap |-> heap,
             warnings |-> warnings \cup {Warning(kind, key, object.Name)}]
       ELSE [raised |-> FALSE, heap |-> [heap EXCEPT ![Top.inst] = written],
             warnings |-> warnings]

\* one iteration of a pairs loop with outcome out: the loop goes on, or the
\* exception ends the top-level call
Iterated(key, out) ==
    IF out.raised
    THEN /\ status' = "error"
         /\ stack' = <<>>
         /\ UNCHANGED <<heap, warnings>>
    ELSE /\ heap' = out.heap
         /\ warnings' = out.warnings
         /\ stack' = SetTop(LeaveLoops([Top EXCEPT !.todo = Top.todo \ {key}]))
         /\ UNCHANGED status

\* lines 191-197, one iteration; pairs visits the keys in no specified order
SetAttachmentProperty ==
    /\ status = "running" /\ stack # <<>> /\ ret = 0
    /\ Top.phase = "attachment"
    /\ \E key \in Top.todo : Iterated(key, TrySet("Attachment property", key))
    /\ UNCHANGED <<instance, data, ret, hostRejects>>
    /\ UNCHANGED cacheVars /\ UNCHANGED codecVars

\* lines 219-226, one iteration
SetProperty ==
    /\ status = "running" /\ stack # <<>> /\ ret = 0
    /\ Top.phase = "props"
    /\ \E key \in Top.todo :
          IF IsA(heap[Top.inst], "MeshPart") /\ key = "MeshId"
          THEN Iterated(key, [raised |-> FALSE, heap |-> heap, warnings |-> warnings])
          ELSE Iterated(key, TrySet("property", key))
    /\ UNCHANGED <<instance, data, ret, hostRejects>>
    /\ UNCHANGED cacheVars /\ UNCHANGED codecVars

ChildAtReversed(frame) ==
    frame.data.Children[Len(frame.data.Children) + 1 - frame.next]

\* line 229: the child the loop is at
ChildAt(frame) == frame.data.Children[frame.next]

\* line 230: the recursive call for the next child
CallChild ==
    /\ status = "running" /\ stack # <<>> /\ ret = 0
    /\ Top.phase = "children"
    /\ Top.next <= Len(Top.data.Children)
    /\ stack' = Append(stack, Frame(ChildAt(Top)))
    /\ UNCHANGED <<instance, data, heap, ret, status, warnings, hostRejects>>
    /\ UNCHANGED cacheVars /\ UNCHANGED codecVars

\* line 234
Return ==
    /\ status = "running" /\ stack # <<>> /\ ret = 0
    /\ Top.phase = "children"
    /\ Top.next > Len(Top.data.Children)
    /\ ret' = Top.inst
    /\ stack' = SubSeq(stack, 1, Len(stack) - 1)
    /\ UNCHANGED <<instance, data, heap, status, warnings, hostRejects>>
    /\ UNCHANGED cacheVars /\ UNCHANGED codecVars

\* line 231: child.Parent = instance; the host appends the child to the
\* parent's children
AttachChild ==
    /\ status = "running" /\ stack # <<>> /\ ret # 0
    /\ heap' = [heap EXCEPT ![ret].Parent = Top.inst,
                            ![Top.inst].kids = Append(@, ret)]
    /\ stack' = SetTop([Top EXCEPT !.next = Top.next + 1])
    /\ ret' = 0
    /\ UNCHANGED <<instance, data, status, warnings, hostRejects>>
    /\ UNCHANGED cacheVars /\ UNCHANGED codecVars

\* the top-level call resolves with the root object
Finish ==
    /\ status = "running" /\ stack = <<>> /\ ret # 0
    /\ status' = "ok"
    /\ UNCHANGED <<instance, data, stack, heap, ret, warnings, hostRejects>>
    /\ UNCHANGED cacheVars /\ UNCHANGED codecVars

Deserialize ==
    \/ Begin \/ ConstructAttachment \/ ConstructMeshPart \/ ConstructGeneric
    \/ SetAttachmentProperty \/ SetProperty \/ CallChild \/ Return \/ AttachChild
    \/ Finish

(***************************************************************************)
(* Serialized trees given to deserializeInstance directly: well-formed     *)
(* nodes, a malformed tagged value, enumeration names the host does not    *)
(* hold, a key the object has no member for, a type name that cannot be    *)
(* constructed.                                                            *)
(***************************************************************************)
GivenBlock ==
    [ClassName |-> "Part", Name |-> "Block",
     Properties |-> [k \in {"Color", "Size"} |->
        IF k = "Color" THEN serializeProperty(NewColor3(1, 0, 0))
        ELSE [t |-> "table", _type |-> "CFrame"]]]
GivenEnums ==
    [ClassName |-> "Part", Name |-> "Enums",
     Properties |-> [k \in {"Color", "Material", "Size"} |->
        CASE k = "Color" -> serializeProperty(NewColor3(0, 1, 0))
          [] k = "Material" ->
                [t |-> "table", _type |-> "EnumItem", EnumType |-> "Material", Name |-> "Gone"]
          [] k = "Size" ->
                [t |-> "table", _type |-> "EnumItem", EnumType |-> "Gone", Name |-> "Wood"]]]
GivenMesh ==
    [ClassName |-> "MeshPart", Name |-> "Mesh", MeshId |-> Str("rbxassetid://123"),
     Properties |-> [k \in {"MeshId", "Size"} |->
        IF k = "MeshId" THEN Str("rbxassetid://123")
        ELSE serializeProperty(NewVector3(2, 2, 2))]]
GivenAttachment ==
    [ClassName |-> "Attachment", Name |-> "A1",
     Properties |-> [k \in {"CFrame", "Size"} |->
        IF k = "CFrame"
        THEN serializeProperty(NewCFrame(1, 2, 3, 0, -1, 0, 1, 0, 0, 0, 0, 1))
        ELSE serializeProperty(NewVector3(1, 1, 1))]]
GivenTerrain == [ClassName |-> "Terrain", Name |-> "Terrain", Properties |-> EmptyMap]

GivenLabels == {GivenBlock, GivenEnums, GivenMesh, GivenAttachment, GivenTerrain}

RejectChoices == {{}, {"Color"}}

InitDeser ==
    /\ data \in TreesUpTo(GivenLabels, MaxNodes)
    /\ hostRejects \in RejectChoices
    /\ instance = NoObject /\ status = "given"
    /\ stack = <<>> /\ heap = <<>> /\ ret = 0 /\ warnings = {}
    /\ CacheIdle
    /\ CodecIdle

NextDeser == Deserialize
SpecDeser == InitDeser /\ [][NextDeser]_vars


(***************************************************************************)
(* Properties of the deserializer.                                         *)
(***************************************************************************)
Done == status \in {"ok", "error"}

AllCreatable(node) == \A n \in NodesOf(node) : n.ClassName \in CreatableInstances

SkippedKey(node, key) == node.ClassName = "MeshPart" /\ key = "MeshId"

\* the decode of the key's value succeeds and the host accepts the write
WriteSucceeds(node, key) ==
    /\ ~typeIs(deserializeProperty(node.Properties[key]), "error")
    /\ key \in AttributesOf(node.ClassName)
    /\ key \notin hostRejects

\* the attributes of the object are those its node's Properties leave: the decoded
\* value where decode and write succeed, the attribute unset where one of them fails
AttributesSet(id, node) ==
    \A key \in DOMAIN node.Properties :
        \/ SkippedKey(node, key)
        \/ /\ WriteSucceeds(node, key)
           /\ heap[id].attrs[key] = deserializeProperty(node.Properties[key])
        \/ /\ ~WriteSucceeds(node, key)
           /\ key \in DOMAIN heap[id].attrs => heap[id].attrs[key] = DefaultValue(key)

RECURSIVE FailuresIsolated(_, _)
FailuresIsolated(id, node) ==
    /\ AttributesSet(id, node)
    /\ Len(heap[id].kids) = Len(node.Children)
    /\ \A i \in 1..Len(node.Children) :
          /\ heap[heap[id].kids[i]].Parent = id
          /\ FailuresIsolated(heap[id].kids[i], node.Children[i])

\* C3: a failing decode or write of one attribute never ends the call with an
\* error; the attributes whose decode and write succeed are set, the failing one is
\* unset, and all children are constructed and attached.
PartialFailureIsolation ==
    (Done /\ AllCreatable(data)) => (status = "ok" /\ FailuresIsolated(ret, data))

PartialFailureWitness ==
    /\ status = "ok"
    /\ data.Name = "Block"
    /\ Warning("property", "Size", "Block") \in warnings
    /\ heap[ret].attrs["Color"] = NewColor3(1, 0, 0)
    /\ heap[ret].attrs["Size"] = DefaultValue("Size")
    /\ Len(heap[ret].kids) = 2

UnresolvedEnum(v) ==
    /\ typeIs(v, "table") /\ HasField(v, "_type") /\ v._type = "EnumItem"
    /\ \/ v.EnumType \notin DOMAIN EnumNamespace
       \/ v.Name \notin EnumNamespace[v.EnumType]

HasUnresolvedEnum(node) ==
    \E n \in NodesOf(node) : \E key \in DOMAIN n.Properties : UnresolvedEnum(n.Properties[key])

\* C8 as stated: an EnumItem value that does not resolve ends the top-level call
\* with the lookup error.
EnumLookupAborts ==
    (Done /\ HasUnresolvedEnum(data)) => status = "error"

RECURSIVE EnumFailuresReported(_, _)
EnumFailuresReported(id, node) ==
    /\ \A key \in DOMAIN node.Properties :
          UnresolvedEnum(node.Properties[key]) =>
              /\ Warning("property", key, node.Name) \in warnings
              /\ key \in DOMAIN heap[id].attrs => heap[id].attrs[key] = DefaultValue(key)
    /\ Len(heap[id].kids) = Len(node.Children)
    /\ \A i \in 1..Len(node.Children) :
          EnumFailuresReported(heap[id].kids[i], node.Children[i])

\* C8 amended: the lookup error of an EnumItem value that does not resolve is caught
\* as a failure of that attribute: it is reported with the attribute and the object
\* name, the attribute stays unset, and the call completes without an error.
EnumLookupCaught ==
    (Done /\ AllCreatable(data)) => (status = "ok" /\ EnumFailuresReported(ret, data))

EnumLookupWitness ==
    /\ status = "ok"
    /\ data.Name = "Enums"
    /\ Warning("property", "Material", "Enums") \in warnings
    /\ Warning("property", "Size", "Enums") \in warnings
    /\ heap[ret].attrs["Material"] = DefaultValue("Material")
    /\ heap[ret].attrs["Color"] = NewColor3(0, 1, 0)

ImportFailed == \E w \in warnings : w.kind = "MeshPart"

\* a mesh-backed node is built the same whether the import succeeded or the
\* fallback constructed it, the MeshId of the object apart
RECURSIVE MeshPartsBuilt(_, _)
MeshPartsBuilt(id, node) ==
    /\ (node.ClassName = "MeshPart" /\ HasMeshId(node)) =>
          /\ heap[id].ClassName = node.ClassName
          /\ heap[id].Name = node.Name
          /\ heap[id].attrs["MeshId"] \in {node.MeshId, DefaultValue("MeshId")}
          /\ AttributesSet(id, node)
    /\ Len(heap[id].kids) = Len(node.Children)
    /\ \A i \in 1..Len(node.Children) :
          /\ heap[heap[id].kids[i]].Parent = id
          /\ MeshPartsBuilt(heap[id].kids[i], node.Children[i])

\* C9: a failure of the mesh importer does not end the call: the object is
\* constructed by its type name and named, its other attributes are written and its
\* children constructed and attached as after a successful import.
ImportFailureNonFatal ==
    (Done /\ AllCreatable(data) /\ ImportFailed) =>
        (status = "ok" /\ MeshPartsBuilt(ret, data))

ImportFailureWitness ==
    /\ status = "ok"
    /\ ImportFailed
    /\ data.Name = "Mesh"
    /\ heap[ret].ClassName = "MeshPart"
    /\ heap[ret].attrs["MeshId"] = DefaultValue("MeshId")
    /\ heap[ret].attrs["Size"] = NewVector3(2, 2, 2)
    /\ Len(heap[ret].kids) = 1

\* type name, name and children of a constructed object, recursively
RECURSIVE LiveShape(_)
LiveShape(id) ==
    [ClassName |-> heap[id].ClassName, Name |-> heap[id].Name,
     Children |-> [i \in 1..Len(heap[id].kids) |-> LiveShape(heap[id].kids[i])]]

\* C10: a call that has a child call under way or a child attached has left its
\* attribute loops; an object whose call has not returned, or has returned and is
\* not yet attached, has no parent; and the finished tree has the children of every
\* node in the order of Children.
ConstructionOrder ==
    /\ \A i \in 1..Len(stack) :
          /\ (i < Len(stack) \/ (stack[i].inst # 0 /\ heap[stack[i].inst].kids # <<>>))
                => (stack[i].phase = "children" /\ stack[i].todo = {})
          /\ stack[i].inst # 0 => heap[stack[i].inst].Parent = 0
          /\ stack[i].inst # 0 => Len(heap[stack[i].inst].kids) = stack[i].next - 1
    /\ ret # 0 => heap[ret].Parent = 0
    /\ \A id \in 1..Len(heap) :
          heap[id].Parent # 0 =>
              /\ \E j \in 1..Len(heap[heap[id].Parent].kids) : heap[heap[id].Parent].kids[j] = id
              /\ \A i \in 1..Len(stack) : stack[i].inst # id
    /\ status = "ok" => LiveShape(ret) = NodeShape(data)

ConstructionOrderWitness ==
    /\ status = "ok"
    /\ Len(data.Children) = 2
    /\ data.Children[1].Name # data.Children[2].Name
    /\ heap[heap[ret].kids[1]].Name = data.Children[1].Name
    /\ heap[heap[ret].kids[2]].Name = data.Children[2].Name


(***************************************************************************)
(* The round trip: a live tree through serializeInstance, and the result   *)
(* through deserializeInstance.                                            *)
(***************************************************************************)
RoundLabels == {Block(TRUE), Block(FALSE), Mesh, A1, TerrainObject}

RoundCatalogs ==
    {StandardCatalog, ApiClasses("Property", Tags(<<"Hidden">>), NoTags, FALSE)}

InitRound ==
    /\ instance \in TreesUpTo(RoundLabels, MaxNodes)
    /\ properties \in {Cached(c) : c \in RoundCatalogs}
    /\ hostRejects \in RejectChoices
    /\ data = NoData /\ status = "live"
    /\ stack = <<>> /\ heap = <<>> /\ ret = 0 /\ warnings = {}
    /\ pc = <<>> /\ hash = <<>> /\ seen = <<>> /\ calls = <<>>
    /\ CodecIdle

NextRound == Serialize \/ Deserialize
SpecRound == InitRound /\ [][NextRound]_vars

RECURSIVE ObjectsOf(_)
ObjectsOf(object) ==
    {object} \cup UNION {ObjectsOf(object.Children[i]) : i \in 1..Len(object.Children)}

DescendantsArchivable(object) ==
    \A o \in ObjectsOf(object) : \A i \in 1..Len(o.Children) : o.Children[i].Archivable

Discovered(object) == DOMAIN getInstanceProperties(object, properties.classes)

SerializableKinds ==
    {"boolean", "string", "number", "Vector3", "CFrame", "Color3", "Vector2", "UDim",
     "UDim2", "NumberRange", "Rect", "BrickColor", "NumberSequence", "ColorSequence",
     "EnumItem"}

DiscoveredSerializable(object) ==
    \A o \in ObjectsOf(object) :
        \A k \in Discovered(o) : typeOf(Index(o, k)) \in SerializableKinds

ClassesCreatable(object) ==
    \A o \in ObjectsOf(object) : o.ClassName \in CreatableInstances

\* the constructed object and the live object agree at every level on type name,
\* name, attribute names, the values of the discovered attributes, and the number
\* and order of children
RECURSIVE SameTree(_, _)
SameTree(object, id) ==
    /\ heap[id].ClassName = object.ClassName
    /\ heap[id].Name = object.Name
    /\ DOMAIN heap[id].attrs = DOMAIN object.attrs
    /\ \A k \in Discovered(object) : heap[id].attrs[k] = Index(object, k)
    /\ Len(heap[id].kids) = Len(object.Children)
    /\ \A i \in 1..Len(object.Children) : SameTree(object.Children[i], heap[id].kids[i])

Callers == 1..NumCallers
Hashes == {"version-1", "version-2"}

\* JSONDecode of the dump published under a version
ApiDump(h) ==
    IF h = "version-1" THEN StandardCatalog
    ELSE ApiClasses("Property", Tags(<<"Deprecated">>), Tags(<<"ReadOnly">>), TRUE)

InitCache ==
    /\ properties = NoCache
    /\ pc = [c \in Callers |-> "idle"]
    /\ hash = [c \in Callers |-> ""]
    /\ seen = [c \in Callers |-> NoCache]
    /\ calls = [c \in Callers |-> 0]
    /\ CodecIdle
    /\ TreeIdle

\* line 72 with the cache set
CacheHit(c) ==
    /\ pc[c] = "idle" /\ calls[c] < MaxCalls
    /\ properties.set
    /\ seen' = [seen EXCEPT ![c] = properties]
    /\ calls' = [calls EXCEPT ![c] = @ + 1]
    /\ UNCHANGED <<properties, pc, hash>>
    /\ UNCHANGED codecVars /\ UNCHANGED treeVars

\* line 72 with the cache unset, and the request of line 74
CacheMiss(c) ==
    /\ pc[c] = "idle" /\ calls[c] < MaxCalls
    /\ ~properties.set
    /\ pc' = [pc EXCEPT ![c] = "awaitVersion"]
    /\ calls' = [calls EXCEPT ![c] = @ + 1]
    /\ UNCHANGED <<properties, hash, seen>>
    /\ UNCHANGED codecVars /\ UNCHANGED treeVars

\* line 74 resumes with the version, and the request of line 75
VersionArrives(c) ==
    /\ pc[c] = "awaitVersion"
    /\ \E h \in Hashes : hash' = [hash EXCEPT ![c] = h]
    /\ pc' = [pc EXCEPT ![c] = "awaitDump"]
    /\ UNCHANGED <<properties, seen, calls>>
    /\ UNCHANGED codecVars /\ UNCHANGED treeVars

\* lines 75-78: the dump arrives, is decoded, assigned to the cache and returned
DumpArrives(c) ==
    /\ pc[c] = "awaitDump"
    /\ properties' = Cached(ApiDump(hash[c]))
    /\ seen' = [seen EXCEPT ![c] = Cached(ApiDump(hash[c]))]
    /\ pc' = [pc EXCEPT ![c] = "idle"]
    /\ UNCHANGED <<hash, calls>>
    /\ UNCHANGED codecVars /\ UNCHANGED treeVars

\* a GetAsync throws: the caller's serialize call ends with the error
FetchFails(c) ==
    /\ pc[c] \in {"awaitVersion", "awaitDump"}
    /\ pc' = [pc EXCEPT ![c] = "failed"]
    /\ UNCHANGED <<properties, hash, seen, calls>>
    /\ UNCHANGED codecVars /\ UNCHANGED treeVars

NextCache ==
    \E c \in Callers :
        \/ CacheHit(c) \/ CacheMiss(c) \/ VersionArrives(c) \/ DumpArrives(c)
        \/ FetchFails(c)
SpecCache == InitCache /\ [][NextCache]_vars

\* C7: once the cache holds a value, no step of any call assigns it again.
CachePopulatedOnce == [][properties.set => properties' = properties]_vars

====
